---------------------------- MODULE Spec2Model ----------------------------
(***************************************************************************)
(* A model of nicedear: the seed -> asset selection (hashString,           *)
(* generateImagePathsFromSeed), the feature catalog (loadFeaturesFromDir,  *)
(* loadFeatures) and the render pipeline behind api_call.                  *)
(*                                                                         *)
(* JavaScript strings are sequences of one-character strings, so that      *)
(* charCodeAt, template concatenation and String.replace are computed and  *)
(* not assumed.  JavaScript numbers that hold integers are pairs           *)
(* <<hi, lo>> standing for hi * 65536 + lo with lo in 0..65535: the        *)
(* intermediate values of the hash (up to 2^37) and Math.abs(-2^31) do not *)
(* fit the 32-bit integers of the model checker.                           *)
(***************************************************************************)
EXTENDS Integers, Sequences, FiniteSets, TLC

\* ------------------------------------------------------------------------
\* Bounds of the model
\* ------------------------------------------------------------------------

\* Longest seed drawn exhaustively over SeedAlphabet by the selection spec.
MaxSeedLen == 3

\* Number of invocations of generateImagePathsFromSeed the selection spec
\* follows for one input.
MaxInvocations == 2

\* The longest requested feature list.
MaxReqLen == 3

\* How many api_calls one process serves.
MaxCalls == 2

\* The longest string handed to hexToRgbA: '#' and six digits.
MaxHexLen == 7

\* ------------------------------------------------------------------------
\* JavaScript values
\* ------------------------------------------------------------------------

\* The value `undefined` (an absent argument, a missing array element).
Undefined == <<"<undefined>">>

\* The text `${undefined}` yields inside a template literal.
UndefinedText == <<"u","n","d","e","f","i","n","e","d">>

LowerCase == <<"a","b","c","d","e","f","g","h","i","j","k","l","m",
               "n","o","p","q","r","s","t","u","v","w","x","y","z">>
UpperCase == <<"A","B","C","D","E","F","G","H","I","J","K","L","M",
               "N","O","P","Q","R","S","T","U","V","W","X","Y","Z">>
DigitChars == <<"0","1","2","3","4","5","6","7","8","9">>

IndexOf(seq, c) == CHOOSE i \in 1..Len(seq) : seq[i] = c

InSeq(seq, c) == \E i \in 1..Len(seq) : seq[i] = c

\* The UTF-16 code of a character (ASCII here).
CodeOf(c) ==
    IF InSeq(LowerCase, c) THEN 96 + IndexOf(LowerCase, c)
    ELSE IF InSeq(UpperCase, c) THEN 64 + IndexOf(UpperCase, c)
    ELSE IF InSeq(DigitChars, c) THEN 47 + IndexOf(DigitChars, c)
    ELSE CASE c = "_" -> 95
           [] c = "#" -> 35
           [] c = "-" -> 45
           [] c = "." -> 46
           [] c = "," -> 44
           [] c = "/" -> 47
           [] c = ":" -> 58
           [] c = "[" -> 91
           [] c = "]" -> 93
           [] c = "{" -> 123
           [] c = "}" -> 125
           [] c = "\"" -> 34
           [] c = " " -> 32

Range(seq) == {seq[i] : i \in 1..Len(seq)}

Characters ==
    Range(LowerCase) \cup Range(UpperCase) \cup Range(DigitChars)
    \cup {"_", "#", "-", ".", ",", "/", ":", "[", "]", "{", "}", "\"", " "}

CharCodes == [c \in Characters |-> CodeOf(c)]

\* String.prototype.charCodeAt, on one character.
charCodeAt(c) == CharCodes[c]

\* ------------------------------------------------------------------------
\* JavaScript numbers holding integers: <<hi, lo>> = hi * 65536 + lo
\* ------------------------------------------------------------------------

Half == 256 * 256

Num(hi, lo) == <<hi, lo>>

\* Carry lo into hi so that lo is in 0..65535 (\div rounds down).
Norm(hi, lo) == <<hi + (lo \div Half), lo % Half>>

FromInt(i) == Norm(0, i)

\* The integer a pair stands for, when it fits 32 bits.
ToInt(w) == w[1] * Half + w[2]

NumAdd(a, b) == Norm(a[1] + b[1], a[2] + b[2])

NumSub(a, b) == Norm(a[1] - b[1], a[2] - b[2])

NumNeg(a) == Norm(-a[1], -a[2])

IsNeg(a) == a[1] < 0

\* ToInt32 of ECMAScript (what `x | 0` and the result of `<<` apply): the
\* value modulo 2^32, read as a signed 32-bit integer.
ToInt32(w) ==
    LET h == w[1] % Half
    IN  <<IF h >= 32768 THEN h - Half ELSE h, w[2]>>

\* x << 5 on an int32 x: multiply by 32 and keep the low 32 bits, signed.
ShiftLeft5(w) == ToInt32(Norm(w[1] * 32, w[2] * 32))

\* Math.abs on a number: exact, 2^31 for -2^31 (numbers are doubles).
Int32AbsWrapped(w) == ToInt32(IF IsNeg(w) THEN NumNeg(w) ELSE w)

MathAbs(w) == IF IsNeg(w) THEN NumNeg(w) ELSE w

\* a mod n for a pair a >= 0 and an integer n in 1..65535.
NumModPos(a, n) == (((a[1] % n) * (Half % n)) + a[2]) % n

\* The % operator of JavaScript on integers, n > 0: the remainder takes the
\* sign of the dividend.  (n = 0 gives NaN: the callers test it first.)
JsRem(a, n) == IF IsNeg(a) THEN -NumModPos(NumNeg(a), n) ELSE NumModPos(a, n)

RECURSIVE DigitsOf(_)
\* Number.prototype.toString of a pair a >= 0, as a sequence of characters.
DigitsOf(a) ==
    LET r1 == a[1] % 10
        q1 == a[1] \div 10
        t  == r1 * Half + a[2]
        q  == <<q1, t \div 10>>
        d  == DigitChars[(t % 10) + 1]
    IN  IF q = <<0, 0>> THEN <<d>> ELSE DigitsOf(q) \o <<d>>

\* `${n}` for a number n.
NumText(a) == IF IsNeg(a) THEN <<"-">> \o DigitsOf(NumNeg(a)) ELSE DigitsOf(a)

\* ------------------------------------------------------------------------
\* hashString (the same closure in generateImagePathsFromSeed and api_call)
\* ------------------------------------------------------------------------

\* The loop body with `+ hash` for `- hash`: hash * 33 + chr.
HashStepTimes33(hash, chr) ==
    ToInt32(NumAdd(NumAdd(ShiftLeft5(hash), hash), FromInt(chr)))

\* One pass of the loop body: hash = (hash << 5) - hash + chr; hash |= 0.
HashStep(hash, chr) ==
    ToInt32(NumAdd(NumSub(ShiftLeft5(hash), hash), FromInt(chr)))

\* The loop from index i on.  (The test of `hash` changes nothing: it makes
\* the model checker compute the value at every pass instead of carrying
\* the unevaluated expression to the end of the string.)
RECURSIVE HashFrom(_, _, _)
HashFrom(hash, s, i) ==
    IF i > Len(s) \/ hash = <<>> THEN hash
    ELSE HashFrom(HashStep(hash, charCodeAt(s[i])), s, i + 1)

\* const hashString = (s: string): number
hashString(s) == IF Len(s) = 0 THEN FromInt(0) ELSE HashFrom(FromInt(0), s, 1)


\* ------------------------------------------------------------------------
\* String literals of the source
\* ------------------------------------------------------------------------

S_assets == <<"a","s","s","e","t","s">>
S_openpeeps == <<"o","p","e","n","-","p","e","e","p","s">>
S_head == <<"h","e","a","d">>
S_face == <<"f","a","c","e">>
S_facialHair == <<"f","a","c","i","a","l","H","a","i","r">>
S_facial_hair == <<"f","a","c","i","a","l","-","h","a","i","r">>
S_png == <<".","p","n","g">>
S_svg == <<".","s","v","g">>
S_jpg == <<".","j","p","g">>
S_jpeg == <<".","j","p","e","g">>

\* ------------------------------------------------------------------------
\* State
\* ------------------------------------------------------------------------

VARIABLES
    build,        \* which revision of the entry module runs (Builds)
    argv,         \* process.argv of the hosting process
    assets,       \* the asset directories of theme open-peeps on disk
    output,       \* the files of _output/: path -> what was rendered into it
    rnd,          \* the state of Math.random: what its next draw yields
    pc,           \* where the request being served stands
    argSeed,      \* api_call's argSeed
    theme,        \* api_call's theme
    params,       \* api_call's params
    pathHash,     \* api_call's pathHash
    seed,         \* the seed handed to generateImagePathsFromSeed
    features,     \* the catalog loadFeaturesFromDir returned
    imagePaths,   \* the selection generateImagePathsFromSeed returned
    layers,       \* the overlay options handed to composite
    post,         \* the operations applied to the composited file
    result,       \* what api_call is about to settle with
    done,         \* the api_calls that settled, in order
    invocations,  \* how many times the selection ran on (features, seed)
    inflight,     \* the requests served concurrently: where each one stands
    front         \* the caller of api_call: the HTTP handler or main()

vars == <<build, argv, assets, output, rnd, pc, argSeed, theme, params,
          pathHash, seed, features, imagePaths, layers, post, result, done,
          invocations, inflight, front>>

\* No request is served concurrently; api_call is called directly.
NoneInFlight == <<>>
NoFront == [kind |-> "none", stage |-> "none", request |-> <<>>, sent |-> <<>>]

\* ------------------------------------------------------------------------
\* utils.ts: directory listing and image filter
\* ------------------------------------------------------------------------

\* A directory listing: whether the directory exists (fs.readdir rejects
\* with ENOENT when it does not) and its entries [name, isFile] in the
\* order readdir reports them.
Dir(entries) == [exists |-> TRUE, entries |-> entries]

Missing == [exists |-> FALSE, entries |-> <<>>]

\* path.join for two relative segments without "." or "..".
pathJoin(a, b) == a \o <<"/">> \o b

Max(S) == CHOOSE x \in S : \A y \in S : y <= x

\* path.basename: what follows the last "/".
basename(p) ==
    LET slashes == {i \in 1..Len(p) : p[i] = "/"}
    IN  IF slashes = {} THEN p ELSE SubSeq(p, Max(slashes) + 1, Len(p))

\* path.extname: from the last "." of the basename, "" when there is none or
\* when the basename starts with it.
extname(p) ==
    LET base == basename(p)
        dots == {i \in 1..Len(base) : base[i] = "."}
    IN  IF dots = {} \/ Max(dots) = 1 THEN <<>>
        ELSE SubSeq(base, Max(dots), Len(base))

SupportedExtensions == {S_svg, S_jpg, S_png, S_jpeg}

isPathImage(filePath) ==
    LET ext == extname(filePath)
    IN  ext \in SupportedExtensions \/ (<<".">> \o ext) \in SupportedExtensions

\* The directories the model's disk holds: assets/open-peeps/<d> for the
\* three d of `assets`; every other path is Missing.
OpenPeepsDir == pathJoin(S_assets, S_openpeeps)

\* fs.readdir: the listing of a directory, or Missing.
readdir(disk, dirpath) ==
    IF \E d \in DOMAIN disk : dirpath = pathJoin(OpenPeepsDir, d)
    THEN disk[CHOOSE d \in DOMAIN disk : dirpath = pathJoin(OpenPeepsDir, d)]
    ELSE Missing

isFileEntry(e) == e.isFile

EntryPath(dirpath, entries) ==
    [i \in 1..Len(entries) |-> pathJoin(dirpath, entries[i].name)]

\* getFilesInDir without its isFile test: every entry of the listing.
getEntriesInDir(disk, dirpath) ==
    EntryPath(dirpath, readdir(disk, dirpath).entries)

\* getFilesInDir: the joined paths of the entries that are regular files, in
\* listing order.  (Not applied to a Missing directory: readdir rejects.)
getFilesInDir(disk, dirpath) ==
    EntryPath(dirpath, SelectSeq(readdir(disk, dirpath).entries, isFileEntry))

\* ------------------------------------------------------------------------
\* The feature catalog
\* ------------------------------------------------------------------------

Builds == {"rev1", "rev2", "svg"}

\* An optional number: <<>> when absent, <<n>> when set.
None == <<>>
Some(n) == <<n>>

FaceTop(b) == IF b = "svg" THEN 375 ELSE 175
FaceLeft(b) == IF b = "svg" THEN 400 ELSE 200
FacialHairTop(b) == CASE b = "rev1" -> 325 [] b = "rev2" -> 175 [] b = "svg" -> 515
FacialHairLeft(b) == CASE b = "rev1" -> 160 [] b = "rev2" -> 200 [] b = "svg" -> 360

HeadData(assetsDir) ==
    [name |-> S_head, dir |-> pathJoin(assetsDir, S_head),
     top |-> None, left |-> None]

FaceData(b, assetsDir) ==
    [name |-> S_face, dir |-> pathJoin(assetsDir, S_face),
     top |-> Some(FaceTop(b)), left |-> Some(FaceLeft(b))]

FacialHairData(b, assetsDir) ==
    [name |-> S_facialHair, dir |-> pathJoin(assetsDir, S_facial_hair),
     top |-> Some(FacialHairTop(b)), left |-> Some(FacialHairLeft(b))]

\* loadFeature(fdata, zIndex)
loadFeature(disk, fdata, zIndex) ==
    [name    |-> fdata.name,
     zIndex  |-> zIndex,
     choices |-> SelectSeq(getFilesInDir(disk, fdata.dir), isPathImage),
     top     |-> fdata.top,
     left    |-> fdata.left]

\* loadFeatures: Promise.all over the features in the order of featureData;
\* it rejects when a directory cannot be read.
loadFeatures(disk, featureData) ==
    IF \E i \in 1..Len(featureData) : ~readdir(disk, featureData[i].dir).exists
    THEN [ok |-> FALSE, features |-> <<>>]
    ELSE [ok |-> TRUE,
          features |-> [i \in 1..Len(featureData) |->
                           loadFeature(disk, featureData[i], i - 1)]]

\* Array.prototype.includes
includes(arr, x) == \E i \in 1..Len(arr) : arr[i] = x

\* The featureData loadFeaturesFromDir builds before it reads the disk.
DefaultWithFacialHair(b, assetsDir) ==
    <<HeadData(assetsDir), FaceData(b, assetsDir), FacialHairData(b, assetsDir)>>

DefaultFeatureData(b, assetsDir) ==
    <<HeadData(assetsDir), FaceData(b, assetsDir)>>

RECURSIVE RequestOrderData(_, _, _)
RequestOrderData(b, assetsDir, required) ==
    IF required = <<>> THEN <<>>
    ELSE (CASE Head(required) = S_head -> <<HeadData(assetsDir)>>
            [] Head(required) = S_face -> <<FaceData(b, assetsDir)>>
            [] Head(required) = S_facialHair -> <<FacialHairData(b, assetsDir)>>
            [] OTHER -> <<>>)
         \o RequestOrderData(b, assetsDir, Tail(required))

RequestedFeatureData(b, assetsDir, required) ==
    (IF includes(required, S_head) THEN <<HeadData(assetsDir)>> ELSE <<>>)
    \o (IF includes(required, S_face) THEN <<FaceData(b, assetsDir)>> ELSE <<>>)
    \o (IF includes(required, S_facialHair)
        THEN <<FacialHairData(b, assetsDir)>> ELSE <<>>)

\* `!theme`: undefined or the empty string.
AssetsDirOf(th) ==
    IF th = Undefined \/ th = <<>> THEN pathJoin(S_assets, S_openpeeps)
    ELSE pathJoin(S_assets, th)

FeatureDataOf(b, th, required) ==
    IF required = Undefined \/ Len(required) = 0
    THEN DefaultFeatureData(b, AssetsDirOf(th))
    ELSE RequestedFeatureData(b, AssetsDirOf(th), required)

\* loadFeaturesFromDir(theme, requiredFeatures), reading `disk`.
loadFeaturesFromDir(b, disk, th, required) ==
    loadFeatures(disk, FeatureDataOf(b, th, required))

\* ------------------------------------------------------------------------
\* The selection
\* ------------------------------------------------------------------------

\* arr[i] of JavaScript, i an integer: undefined outside 0..length-1.
ArrayGet(arr, i) == IF i \in 0..(Len(arr) - 1) THEN arr[i + 1] ELSE Undefined

\* feature.choices[hash % feature.choices.length]; a % 0 is NaN and
\* choices[NaN] is undefined.
ChoiceAt(choices, hash) ==
    IF Len(choices) = 0 THEN Undefined
    ELSE ArrayGet(choices, JsRem(hash, Len(choices)))

\* chooseFeatureFiles of the first prototype: Math.random picks the index
\* and the seed is not read.
chooseFeatureFiles(catalog, s) ==
    [i \in 1..Len(catalog) |-> ChoiceAt(catalog[i].choices, FromInt(rnd))]

\* Each feature hashed with its own salt (its z-index).
SaltedImagePaths(catalog, s) ==
    [i \in 1..Len(catalog) |->
        ChoiceAt(catalog[i].choices,
                 MathAbs(NumAdd(hashString(s), FromInt(catalog[i].zIndex))))]

generateImagePathsFromSeed(catalog, s) ==
    LET hash == MathAbs(hashString(s))
    IN  [i \in 1..Len(catalog) |-> ChoiceAt(catalog[i].choices, hash)]


\* ------------------------------------------------------------------------
\* The params object and its fingerprint text
\* ------------------------------------------------------------------------

S_mirror == <<"m","i","r","r","o","r">>
S_rotate == <<"r","o","t","a","t","e">>
S_background == <<"b","a","c","k","g","r","o","u","n","d">>
S_skincolor == <<"s","k","i","n","c","o","l","o","r">>
S_skinColor == <<"s","k","i","n","C","o","l","o","r">>
S_hairColor == <<"h","a","i","r","C","o","l","o","r">>
S_scale == <<"s","c","a","l","e">>
S_transalteX == <<"t","r","a","n","s","a","l","t","e","X">>
S_transalteY == <<"t","r","a","n","s","a","l","t","e","Y">>
S_features == <<"f","e","a","t","u","r","e","s">>
S_true == <<"t","r","u","e">>
S_false == <<"f","a","l","s","e">>
S_null == <<"n","u","l","l">>
S_NaN == <<"N","a","N">>
S_zero == <<"0">>

\* An object is the sequence of its own properties in insertion order.  A
\* property is [k, t, v]: its key, the type of its value ("undef", "bool",
\* "num", "str", "arr") and the value: the text of a boolean or number, the
\* characters of a string, the strings of an array.
Prop(k, t, v) == [k |-> k, t |-> t, v |-> v]

UndefProp(k) == Prop(k, "undef", <<>>)

BoolProp(k, b) == Prop(k, "bool", IF b THEN S_true ELSE S_false)

\* A number given by its text, or undefined.
NumProp(k, n) == IF n = Undefined THEN UndefProp(k) ELSE Prop(k, "num", n)

StrProp(k, x) == IF x = Undefined THEN UndefProp(k) ELSE Prop(k, "str", x)

ArrProp(k, x) == IF x = Undefined THEN UndefProp(k) ELSE Prop(k, "arr", x)

\* params?.key
Get(obj, key) ==
    IF \E i \in 1..Len(obj) : obj[i].k = key
    THEN obj[CHOOSE i \in 1..Len(obj) : obj[i].k = key]
    ELSE UndefProp(key)

\* The value of a property, Undefined when it has none.
ValueOf(e) == IF e.t = "undef" THEN Undefined ELSE e.v

\* ToBoolean of a property's value.
Truthy(e) ==
    CASE e.t = "undef" -> FALSE
      [] e.t = "bool" -> e.v = S_true
      [] e.t = "num" -> e.v \notin {S_zero, S_NaN}
      [] e.t = "str" -> e.v # <<>>
      [] e.t = "arr" -> TRUE

Quote(x) == <<"\"">> \o x \o <<"\"">>

RECURSIVE JoinComma(_)
JoinComma(parts) ==
    IF parts = <<>> THEN <<>>
    ELSE IF Len(parts) = 1 THEN parts[1]
    ELSE parts[1] \o <<",">> \o JoinComma(Tail(parts))

\* JSON.stringify of a value (the strings of the model need no escape).
JsonValue(e) ==
    CASE e.t = "bool" -> e.v
      [] e.t = "num" -> IF e.v = S_NaN THEN S_null ELSE e.v
      [] e.t = "str" -> Quote(e.v)
      [] e.t = "arr" -> <<"[">> \o JoinComma([i \in 1..Len(e.v) |-> Quote(e.v[i])])
                        \o <<"]">>

IsDefined(e) == e.t # "undef"

JsonMember(e) == Quote(e.k) \o <<":">> \o JsonValue(e)

\* JSON.stringify(params): properties holding undefined are left out.
JSONstringify(obj) ==
    LET defined == SelectSeq(obj, IsDefined)
    IN  <<"{">> \o JoinComma([i \in 1..Len(defined) |-> JsonMember(defined[i])])
        \o <<"}">>

NotStripped(c) == c \notin {"{", "}", "\"", ":"}

\* .replace(/[{}":]/g, '')
StripPunctuation(text) == SelectSeq(text, NotStripped)

\* `${x}` for a string or undefined.
Text(x) == IF x = Undefined THEN UndefinedText ELSE x

\* const paramsString = JSON.stringify(params).replace(/[{}":]/g, '')
paramsString(obj) == StripPunctuation(JSONstringify(obj))

\* Math.abs(hashString(`${argSeed}_${theme}_${paramsString}`))
pathHashOf(a, t, obj) ==
    MathAbs(hashString(Text(a) \o <<"_">> \o Text(t) \o <<"_">> \o paramsString(obj)))

S_output == <<"_","o","u","t","p","u","t","/">>

\* `_output/${s}${pathHash}.png` (or .svg)
OutputPath(s, h, ext) == S_output \o Text(s) \o NumText(h) \o ext

\* The params object main() builds from the command line.
CliParams(mirror, rotate, background, scale, requested) ==
    <<BoolProp(S_mirror, mirror), NumProp(S_rotate, rotate),
      StrProp(S_background, background), UndefProp(S_skincolor),
      UndefProp(S_hairColor), NumProp(S_scale, scale),
      NumProp(S_transalteX, S_NaN), NumProp(S_transalteY, S_NaN),
      ArrProp(S_features, requested)>>

\* The params object the HTTP handler builds from the query.
HttpParams(mirror, rotate, background, scale) ==
    <<BoolProp(S_mirror, mirror), NumProp(S_rotate, rotate),
      StrProp(S_background, background), UndefProp(S_skinColor),
      UndefProp(S_hairColor), NumProp(S_scale, scale),
      UndefProp(S_transalteX), UndefProp(S_transalteY)>>

\* ------------------------------------------------------------------------
\* utils.ts: hexToRgbA, file_exists, readSeed
\* ------------------------------------------------------------------------

HexDigits == <<"0","1","2","3","4","5","6","7","8","9",
               "a","b","c","d","e","f">>
HexDigitsUpper == <<"0","1","2","3","4","5","6","7","8","9",
                    "A","B","C","D","E","F">>

IsHexDigit(c) == InSeq(HexDigits, c) \/ InSeq(HexDigitsUpper, c)

HexValue(c) ==
    IF InSeq(HexDigits, c) THEN IndexOf(HexDigits, c) - 1
    ELSE IndexOf(HexDigitsUpper, c) - 1

\* The regular expression of hexToRgbA accepting more than it does: any
\* number of hexadecimal digits from three to six.
IsHexColorAnyLength(hex) ==
    /\ Len(hex) \in 4..7
    /\ hex[1] = "#"
    /\ \A i \in 2..Len(hex) : IsHexDigit(hex[i])

\* /^#([A-Fa-f0-9]{3}){1,2}$/.test(hex)
IsHexColor(hex) ==
    /\ Len(hex) \in {4, 7}
    /\ hex[1] = "#"
    /\ \A i \in 2..Len(hex) : IsHexDigit(hex[i])

Rgba(r, g, b, alpha) == [ok |-> TRUE, r |-> r, g |-> g, b |-> b, alpha |-> alpha]

\* What stands for the thrown Error('Bad Hex').
BadHex == [ok |-> FALSE, r |-> 0, g |-> 0, b |-> 0, alpha |-> 0]

\* Number('0x' + c.join('')), for hexadecimal digits c.
RECURSIVE HexNumber(_)
HexNumber(c) ==
    IF c = <<>> THEN 0
    ELSE HexNumber(SubSeq(c, 1, Len(c) - 1)) * 16 + HexValue(c[Len(c)])

\* (n >> bits) & 255, for n >= 0 and the shift given as its power of two.
ShiftMask(n, power) == (n \div power) % 256

\* hexToRgbA(hex) with the default alpha = 1.
hexToRgbA(hex) ==
    IF IsHexColor(hex)
    THEN LET digits == Tail(hex)
             c == IF Len(digits) = 3
                  THEN <<digits[1], digits[1], digits[2], digits[2],
                         digits[3], digits[3]>>
                  ELSE digits
         IN  Rgba(ShiftMask(HexNumber(c), 65536), ShiftMask(HexNumber(c), 256),
                  ShiftMask(HexNumber(c), 1), 1)
    ELSE BadHex

\* file_exists(file), on the files of _output/.
file_exists(files, file) == file \in DOMAIN files

\* readSeed(defaultSeed): process.argv[2] when the process has one.
readSeed(args, defaultSeed) == IF Len(args) > 2 THEN args[3] ELSE defaultSeed

\* ------------------------------------------------------------------------
\* Layers and transformations
\* ------------------------------------------------------------------------

\* An operation requested of the image engine: flop, rotate or resize, with
\* the factors of its numeric argument (none for flop).
Op(name, arg) == [op |-> name, arg |-> arg]

Flop == Op("flop", <<>>)
Rotate(angle) == Op("rotate", angle)
Resize(factor) == Op("resize", factor)

S_half == <<"0",".","5">>
S_thousand == <<"1","0","0","0">>

\* if (mirror) flop; if (rotate) rotate -- the two steps both
\* applyTransformations begin with.
MirrorThenRotate(obj) ==
    (IF Truthy(Get(obj, S_mirror)) THEN <<Flop>> ELSE <<>>)
    \o (IF Truthy(Get(obj, S_rotate)) THEN <<Rotate(<<Get(obj, S_rotate).v>>)>>
        ELSE <<>>)

\* The layer transformed with the resize first.
ResizeFirstLayer(obj) ==
    <<Resize(IF Truthy(Get(obj, S_scale))
             THEN <<S_half, Get(obj, S_scale).v>> ELSE <<S_half>>)>>
    \o MirrorThenRotate(obj)

\* applyTransformations(image, params) of index.ts, on one layer whose
\* metadata has a width: the resize is always issued, to half the width
\* times the scale when there is one.
applyTransformationsLayer(obj) ==
    MirrorThenRotate(obj)
    \o <<Resize(IF Truthy(Get(obj, S_scale))
                THEN <<S_half, Get(obj, S_scale).v>> ELSE <<S_half>>)>>

\* applyTransformations(path, params) of the svg variant, on the composited
\* file: resize to 1000 * scale when there is a scale.
applyTransformationsFile(obj) ==
    MirrorThenRotate(obj)
    \o (IF Truthy(Get(obj, S_scale))
        THEN <<Resize(<<S_thousand, Get(obj, S_scale).v>>)>> ELSE <<>>)

\* An overlay option: its input, the operations applied to the input before
\* it is handed over, and its offsets.
Layer(input, ops, top, left) ==
    [input |-> input, ops |-> ops, top |-> top, left |-> left]

\* if (feature.top) layer.top = feature.top  (0 is falsy)
OffsetOf(o) == IF o # None /\ o # Some(0) THEN o ELSE None

\* The layers each revision builds from the selection: the first revision
\* and the svg variant pass the path and the feature's offsets; buildImage
\* of index.ts passes the transformed buffer and no offset.
LayersOf(b, obj, catalog, paths) ==
    [i \in 1..Len(paths) |->
        IF b = "rev2"
        THEN Layer(paths[i], applyTransformationsLayer(obj), None, None)
        ELSE Layer(paths[i], <<>>, OffsetOf(catalog[i].top),
                   OffsetOf(catalog[i].left))]

White == Rgba(255, 255, 255, 1)
Pink == Rgba(255, 182, 193, 1)
Black == Rgba(0, 0, 0, 1)
Transparent == Rgba(255, 255, 255, 0)

ColorOr(e, default) == IF Truthy(e) THEN hexToRgbA(e.v) ELSE default

\* The colours a revision parses before it composites: all must parse.
\* The first revision parses background, skincolor and hairColor; buildImage
\* of index.ts only background; the svg variant none.
ColorsOf(b, obj) ==
    CASE b = "rev1" -> <<ColorOr(Get(obj, S_background), White),
                         ColorOr(Get(obj, S_skincolor), Pink),
                         ColorOr(Get(obj, S_hairColor), Black)>>
      [] b = "rev2" -> <<ColorOr(Get(obj, S_background), White)>>
      [] b = "svg" -> <<Transparent>>

ColorsParse(b, obj) == \A i \in 1..Len(ColorsOf(b, obj)) : ColorsOf(b, obj)[i].ok

\* The extension of the file api_call probes and returns.
ArtifactExt(b) == IF b = "svg" THEN S_svg ELSE S_png

\* What a written file holds: the layers overlaid on the canvas, the
\* canvas colour and the operations applied after the overlay.
Rendering(ls, bg, after) ==
    [layers |-> ls, background |-> bg, post |-> after, complete |-> TRUE]

\* What a file holds when the write into it was cut short.
Truncated(r) == [r EXCEPT !.complete = FALSE]

\* ------------------------------------------------------------------------
\* Inputs: asset directories, seeds, requests
\* ------------------------------------------------------------------------

S_a_svg == <<"a",".","s","v","g">>
S_b_png == <<"b",".","p","n","g">>
S_c_jpeg == <<"c",".","j","p","e","g">>
S_notes_txt == <<"n","o","t","e","s",".","t","x","t">>
S_old_svg == <<"o","l","d",".","s","v","g">>
S_dot_png == <<".","p","n","g">>
S_e_PNG == <<"e",".","P","N","G">>
S_foo == <<"f","o","o">>
S_bar == <<"b","a","r">>
S_GydZG == <<"G","y","d","Z","G","_">>
S_node == <<"n","o","d","e">>
S_script == <<"i","n","d","e","x",".","j","s">>

\* A Dirent: a regular file, or a sub-directory.
File(name) == [name |-> name, isFile |-> TRUE]
SubDir(name) == [name |-> name, isFile |-> FALSE]

EmptyDir == Dir(<<>>)

\* Entries, none of which qualifies: a text file, a directory named like an
\* image, a file that is all extension, an upper-case extension.
NoImageDir ==
    Dir(<<File(S_notes_txt), SubDir(S_old_svg), File(S_dot_png), File(S_e_PNG)>>)

OneImageDir == Dir(<<File(S_notes_txt), File(S_b_png)>>)

TwoImageDir == Dir(<<File(S_a_svg), SubDir(S_old_svg), File(S_b_png)>>)

ThreeImageDir ==
    Dir(<<File(S_a_svg), File(S_notes_txt), File(S_b_png), File(S_c_jpeg)>>)

Listings == {Missing, EmptyDir, NoImageDir, OneImageDir, TwoImageDir, ThreeImageDir}

FeatureDirs == {S_head, S_face, S_facial_hair}

\* The directories in which every feature has at least one image.
SelectLayouts == [FeatureDirs -> {OneImageDir, TwoImageDir, ThreeImageDir}]

RECURSIVE SeqsUpTo(_, _)
SeqsUpTo(S, n) ==
    IF n = 0 THEN {<<>>}
    ELSE LET shorter == SeqsUpTo(S, n - 1)
         IN  shorter \cup {Append(q, x) : q \in {r \in shorter : Len(r) = n - 1}, x \in S}

SeedAlphabet == {"f", "o", "_"}

\* All short seeds, a seed whose hash is -2^31, and one more.
SelectSeeds == SeqsUpTo(SeedAlphabet, MaxSeedLen) \cup {S_GydZG, S_bar}

SelectRequests == {Undefined, <<S_facialHair, S_head, S_face>>}

\* Math.random().toString(36).substring(7), twice: a text of digits and
\* lower-case letters, one per outcome of Math.random.
RandomSeedText(r) == IF r = 0 THEN <<"k","3","x","9">> ELSE <<"q","7","m","2">>

\* process.argv of a process started without arguments.
NodeArgv == <<S_node, S_script>>

\* No request is being served.
NoResult == [outcome |-> "none", path |-> Undefined]

NoFiles == [f \in {} |-> f]

\* ------------------------------------------------------------------------
\* The selection on its own: generateImagePathsFromSeed invoked again and
\* again on one catalog and one seed, Math.random drawn in between.
\* ------------------------------------------------------------------------

SelectInit ==
    /\ build = "rev2"
    /\ argv = NodeArgv
    /\ assets \in SelectLayouts
    /\ output = NoFiles
    /\ rnd = 0
    /\ pc = "select"
    /\ argSeed \in SelectSeeds
    /\ theme = Undefined
    /\ \E req \in SelectRequests :
          params = CliParams(FALSE, S_NaN, Undefined, S_NaN, req)
    /\ pathHash = FromInt(0)
    /\ seed = readSeed(argv, argSeed)
    /\ features =
          loadFeaturesFromDir(build, assets, theme,
                              ValueOf(Get(params, S_features))).features
    /\ imagePaths = <<>>
    /\ layers = <<>>
    /\ post = <<>>
    /\ result = NoResult
    /\ done = <<>>
    /\ invocations = 0
    /\ inflight = NoneInFlight
    /\ front = NoFront

Invoke ==
    /\ invocations < MaxInvocations
    /\ imagePaths' = generateImagePathsFromSeed(features, seed)
    /\ invocations' = invocations + 1
    /\ UNCHANGED <<front, inflight, build, argv, assets, output, rnd, pc, argSeed, theme, params,
                   pathHash, seed, features, layers, post, result, done>>

\* Math.random() drawn by some other code.
MathRandom ==
    /\ rnd' = 1 - rnd
    /\ UNCHANGED <<front, inflight, build, argv, assets, output, pc, argSeed, theme, params,
                   pathHash, seed, features, imagePaths, layers, post, result,
                   done, invocations>>

SelectNext == Invoke \/ MathRandom

SpecSelect == SelectInit /\ [][SelectNext]_vars

\* ------------------------------------------------------------------------
\* The catalog on its own: loadFeaturesFromDir called once on a theme and a
\* requested feature list.
\* ------------------------------------------------------------------------

S_other == <<"o","t","h","e","r">>

\* Every way the three feature directories can be missing, without images
\* or filled.
CatalogLayouts == [FeatureDirs -> {Missing, NoImageDir, ThreeImageDir}]

CatalogThemes == {Undefined, S_openpeeps, S_other}

FeatureNames == {S_head, S_face, S_facialHair, S_facial_hair}

\* The requested feature lists, next to the absent one.
CatalogRequests == SeqsUpTo(FeatureNames, MaxReqLen)

CatalogInit ==
    /\ build \in Builds
    /\ argv = NodeArgv
    /\ assets \in CatalogLayouts
    /\ output = NoFiles
    /\ rnd = 0
    /\ pc = "load"
    /\ argSeed = S_foo
    /\ theme \in CatalogThemes
    /\ \/ params = CliParams(FALSE, S_NaN, Undefined, S_NaN, Undefined)
       \/ \E req \in CatalogRequests :
             params = CliParams(FALSE, S_NaN, Undefined, S_NaN, req)
    /\ pathHash = FromInt(0)
    /\ seed = S_foo
    /\ features = <<>>
    /\ imagePaths = <<>>
    /\ layers = <<>>
    /\ post = <<>>
    /\ result = NoResult
    /\ done = <<>>
    /\ invocations = 0
    /\ inflight = NoneInFlight
    /\ front = NoFront

\* const seedString = argSeed || Math.random()... ; readSeed(seedString)
\* with `r` what Math.random yields.
SeedOf(args, a, r) ==
    readSeed(args, IF a = Undefined \/ a = <<>> THEN RandomSeedText(r) ELSE a)

DrawsRandom(a) == a = Undefined \/ a = <<>>

\* const features = await loadFeaturesFromDir(theme, requiredFeatures);
\* the first revision computes the seed next, inside api_call.
LoadCatalog ==
    /\ pc = "load"
    /\ LET loaded == loadFeaturesFromDir(build, assets, theme,
                                         ValueOf(Get(params, S_features)))
       IN  /\ loaded.ok
           /\ features' = loaded.features
    /\ IF build = "rev1"
       THEN /\ seed' = SeedOf(argv, argSeed, rnd)
            /\ rnd' = IF DrawsRandom(argSeed) THEN 1 - rnd ELSE rnd
       ELSE UNCHANGED <<seed, rnd>>
    /\ pc' = "select"
    /\ UNCHANGED <<front, inflight, build, argv, assets, output, argSeed, theme, params,
                   pathHash, imagePaths, layers, post, result, done,
                   invocations>>

\* ... and its rejection (ENOENT) when a directory cannot be read.
LoadCatalogRejects ==
    /\ pc = "load"
    /\ ~loadFeaturesFromDir(build, assets, theme,
                            ValueOf(Get(params, S_features))).ok
    /\ pc' = "return"
    /\ result' = [outcome |-> "error", path |-> Undefined]
    /\ UNCHANGED <<front, inflight, build, argv, assets, output, rnd, argSeed, theme, params,
                   pathHash, seed, features, imagePaths, layers, post, done,
                   invocations>>

CatalogNext == LoadCatalog \/ LoadCatalogRejects

SpecCatalog == CatalogInit /\ [][CatalogNext]_vars

\* ------------------------------------------------------------------------
\* The pipeline: api_call after api_call in one process
\* ------------------------------------------------------------------------

S_45 == <<"4","5">>
S_2 == <<"2">>
S_fff == <<"#","f","f","f">>
S_red == <<"r","e","d">>

\* Started without arguments, or with one.
ProcessArgvs == {NodeArgv, NodeArgv \o <<S_bar>>}

\* Every feature filled; face without a qualifying image; facial-hair
\* missing.
FullLayout ==
    [d \in FeatureDirs |->
        CASE d = S_head -> ThreeImageDir
          [] d = S_face -> TwoImageDir
          [] d = S_facial_hair -> OneImageDir]

FaceEmptyLayout == [FullLayout EXCEPT ![S_face] = NoImageDir]

HairMissingLayout == [FullLayout EXCEPT ![S_facial_hair] = Missing]

PipelineLayouts == {FullLayout, FaceEmptyLayout, HairMissingLayout}

ArgSeeds == {Undefined, S_foo}

Themes == {Undefined, S_openpeeps}

\* A plain HTTP request; one with every transformation; one with a
\* background that is no hex colour; a command line asking for facial hair
\* and every transformation.
ParamBags ==
    {HttpParams(FALSE, Undefined, Undefined, Undefined),
     HttpParams(TRUE, S_45, S_fff, S_2),
     HttpParams(FALSE, Undefined, S_red, Undefined),
     CliParams(TRUE, S_45, Undefined, S_2, <<S_facialHair, S_head>>)}

PlainParams == HttpParams(FALSE, Undefined, Undefined, Undefined)

\* The api_calls a process makes: every seed and params without a theme,
\* and the plain seeded request with the theme named.
Calls ==
    {c \in ArgSeeds \X Themes \X ParamBags :
        c[2] = Undefined \/ (c[1] = S_foo /\ c[3] = PlainParams)}

\* ------------------------------------------------------------------------
\* The two front ends of api_call: the handler of server.ts and main()
\* ------------------------------------------------------------------------

IsDigit(c) == InSeq(DigitChars, c)

\* The longest prefix of a text made of decimal digits.
DigitPrefix(text) ==
    LET n == CHOOSE k \in 0..Len(text) :
                 /\ \A i \in 1..k : IsDigit(text[i])
                 /\ k = Len(text) \/ ~IsDigit(text[k + 1])
    IN  SubSeq(text, 1, n)

\* The digits of a number without its leading zeros.
StripZeros(digits) ==
    LET z == CHOOSE k \in 0..Len(digits) :
                 /\ \A i \in 1..k : digits[i] = "0"
                 /\ k = Len(digits) \/ digits[k + 1] # "0"
    IN  IF z = Len(digits) THEN S_zero ELSE SubSeq(digits, z + 1, Len(digits))

\* The fraction digits of a number without their trailing zeros.
StripTrailingZeros(digits) ==
    LET n == CHOOSE k \in 0..Len(digits) :
                 /\ \A i \in (k + 1)..Len(digits) : digits[i] = "0"
                 /\ k = 0 \/ digits[k] # "0"
    IN  SubSeq(digits, 1, n)

Unsigned(text) ==
    IF text # <<>> /\ text[1] \in {"-", "+"} THEN Tail(text) ELSE text

Minus(text, magnitude) ==
    IF text # <<>> /\ text[1] = "-" /\ magnitude # S_zero THEN <<"-">> ELSE <<>>

\* parseInt(text), as the text JSON.stringify and a template print for it:
\* an optional sign and the leading decimal digits, NaN without any.
parseInt(text) ==
    LET digits == DigitPrefix(Unsigned(text))
    IN  IF digits = <<>> THEN S_NaN
        ELSE Minus(text, StripZeros(digits)) \o StripZeros(digits)

\* parseFloat(text): as parseInt, with an optional fraction.
parseFloat(text) ==
    LET body == Unsigned(text)
        whole == DigitPrefix(body)
        rest == SubSeq(body, Len(whole) + 1, Len(body))
        fraction == IF rest # <<>> /\ rest[1] = "."
                    THEN DigitPrefix(Tail(rest)) ELSE <<>>
        kept == StripTrailingZeros(fraction)
        magnitude == StripZeros(whole) \o
                     (IF kept = <<>> THEN <<>> ELSE <<".">> \o kept)
    IN  IF whole = <<>> /\ fraction = <<>> THEN S_NaN
        ELSE Minus(text, magnitude) \o magnitude

\* x ? ... : ..., for a query value: a string that is there and not empty.
Given(x) == x # Undefined /\ x # <<>>

\* The query of a request: what url.parse(req.url, true).query holds for the
\* names a request may carry, Undefined for a name that is not there.
Query(s, t, mirror, rotate, background, skin, hair, scale, requested) ==
    [seed |-> s, theme |-> t, mirror |-> mirror, rotate |-> rotate,
     background |-> background, skincolor |-> skin, hairColor |-> hair,
     scale |-> scale, transalteX |-> Undefined, transalteY |-> Undefined,
     features |-> requested]

\* const seed = requestUrl.query.seed ? ... : undefined
HandlerSeed(q) == IF Given(q.seed) THEN q.seed ELSE Undefined

\* const theme = requestUrl.query.theme ? ... : 'open-peeps'
HandlerTheme(q) == IF Given(q.theme) THEN q.theme ELSE S_openpeeps

\* The object literal the handler hands to api_call.
HandlerParams(q) ==
    <<BoolProp(S_mirror, q.mirror = S_true),
      NumProp(S_rotate, IF Given(q.rotate) THEN parseInt(q.rotate) ELSE Undefined),
      StrProp(S_background, IF Given(q.background) THEN q.background ELSE Undefined),
      StrProp(S_skinColor, IF Given(q.skincolor) THEN q.skincolor ELSE Undefined),
      StrProp(S_hairColor, IF Given(q.hairColor) THEN q.hairColor ELSE Undefined),
      NumProp(S_scale, IF Given(q.scale) THEN parseFloat(q.scale) ELSE Undefined),
      NumProp(S_transalteX,
              IF Given(q.transalteX) THEN parseInt(q.transalteX) ELSE Undefined),
      NumProp(S_transalteY,
              IF Given(q.transalteY) THEN parseInt(q.transalteY) ELSE Undefined)>>

HandlerCall(q) == <<HandlerSeed(q), HandlerTheme(q), HandlerParams(q)>>

\* process.argv[i]
Arg(args, i) == IF Len(args) > i THEN args[i + 1] ELSE Undefined

\* String.prototype.split(',')
RECURSIVE SplitComma(_)
SplitComma(text) ==
    IF InSeq(text, ",")
    THEN <<SubSeq(text, 1, IndexOf(text, ",") - 1)>>
         \o SplitComma(SubSeq(text, IndexOf(text, ",") + 1, Len(text)))
    ELSE <<text>>

\* The params object main() builds from process.argv; the svg variant names
\* the skin colour skinColor.
MainParams(b, args) ==
    <<BoolProp(S_mirror, Arg(args, 4) = S_true),
      NumProp(S_rotate, parseInt(Arg(args, 5))),
      StrProp(S_background, Arg(args, 6)),
      StrProp(IF b = "svg" THEN S_skinColor ELSE S_skincolor, Arg(args, 7)),
      StrProp(S_hairColor, Arg(args, 8)),
      NumProp(S_scale, parseFloat(Arg(args, 9))),
      NumProp(S_transalteX, parseFloat(Arg(args, 10))),
      NumProp(S_transalteY, parseFloat(Arg(args, 11))),
      ArrProp(S_features,
              IF Given(Arg(args, 12)) THEN SplitComma(Arg(args, 12)) ELSE Undefined)>>

MainCall(b, args) == <<Arg(args, 2), Arg(args, 3), MainParams(b, args)>>

S_root == <<"/">>
S_favicon == <<"/","f","a","v","i","c","o","n",".","i","c","o">>
S_blue == <<"b","l","u","e">>
S_fda == <<"#","f","f","d","d","a","a">>
S_one == <<"1">>

\* GET /?seed=foo; one with every transformation and a background; one with
\* a background that is no hex colour; one with skin and hair colours that
\* are no hex colours and two features asked for; one without a seed; one
\* whose seed is the word undefined; one with a hair colour and a scale, and
\* one whose hair colour is the text the former two print as.
Queries ==
    {Query(S_foo, Undefined, Undefined, Undefined, Undefined, Undefined,
           Undefined, Undefined, Undefined),
     Query(S_foo, S_openpeeps, S_true, S_45, S_fff, Undefined, Undefined,
           S_2, Undefined),
     Query(S_foo, Undefined, Undefined, Undefined, S_red, Undefined,
           Undefined, Undefined, Undefined),
     Query(S_foo, Undefined, Undefined, Undefined, Undefined, S_red, S_blue,
           Undefined, <<S_facialHair, S_head>>),
     Query(Undefined, Undefined, Undefined, Undefined, Undefined, Undefined,
           Undefined, Undefined, Undefined),
     Query(UndefinedText, Undefined, Undefined, Undefined, Undefined, Undefined,
           Undefined, Undefined, Undefined),
     Query(S_foo, Undefined, Undefined, Undefined, Undefined, Undefined,
           S_blue, S_2, Undefined),
     Query(S_foo, Undefined, Undefined, Undefined, Undefined, Undefined,
           S_blue \o <<",">> \o S_scale \o S_2, Undefined, Undefined)}

Pathnames == {S_root, S_favicon}

\* node index.js; with a seed and a theme; with every argument, the
\* colours being hex colours, and facial hair asked for; with a skin colour
\* that is no hex colour; with a background that is no hex colour.
CommandLine(s, background, skin, requested) ==
    NodeArgv \o <<s, S_openpeeps, S_true, S_45, background, skin, S_fff, S_2,
                  S_zero, S_zero, requested>>

CommandLines ==
    {NodeArgv,
     NodeArgv \o <<S_foo, S_openpeeps>>,
     CommandLine(S_foo, S_fff, S_fda, S_facialHair \o <<",">> \o S_head),
     CommandLine(S_bar, S_fff, S_blue, S_head),
     CommandLine(S_bar, S_red, S_fda, S_head)}

\* The api_calls the front ends make of the requests and command lines
\* above.
FrontCalls ==
    {HandlerCall(q) : q \in Queries}
    \cup {MainCall(b, args) : b \in {"rev1", "svg"}, args \in CommandLines}

\* The api_call a front end makes for the request it is serving.
FrontCall ==
    IF front.kind = "http" THEN HandlerCall(front.request.query)
    ELSE MainCall(build, argv)

\* What api_call may be called with next: anything by a caller that is not
\* modelled, and the call of the request being served by a front end, once.
Startable ==
    CASE front.kind = "none" -> Calls
      [] front.kind # "none" /\ front.stage = "calling" /\ result.outcome = "none"
           -> {FrontCall}
      [] OTHER -> {}

\* pathHash for each of the calls above, tabulated once (the table is
\* merged into the empty one so that it is held as an explicit table).
PathHashes ==
    [c \in Calls \cup FrontCalls |-> pathHashOf(c[1], c[2], c[3])] @@ NoFiles

\* A process of any revision, on any of the layouts when started without
\* arguments and on the full one when started with one.
Init ==
    /\ build \in Builds
    /\ argv \in ProcessArgvs
    /\ assets \in PipelineLayouts
    /\ argv = NodeArgv \/ assets = FullLayout
    /\ output = NoFiles
    /\ rnd = 0
    /\ pc = "idle"
    /\ argSeed = Undefined
    /\ theme = Undefined
    /\ params = <<>>
    /\ pathHash = FromInt(0)
    /\ seed = Undefined
    /\ features = <<>>
    /\ imagePaths = <<>>
    /\ layers = <<>>
    /\ post = <<>>
    /\ result = NoResult
    /\ done = <<>>
    /\ invocations = 0
    /\ inflight = NoneInFlight
    /\ front = NoFront

\* api_call(a, t, p) up to the cache probe, the file being there.
CacheHit ==
    /\ pc = "idle"
    /\ Len(done) < MaxCalls
    /\ \E c \in Startable :
          LET a == c[1]
              t == c[2]
              p == c[3]
              h == PathHashes[c]
          IN  /\ file_exists(output, OutputPath(a, h, ArtifactExt(build)))
              /\ pathHash' = h
              /\ result' = [outcome |-> "hit",
                            path |-> OutputPath(a, h, ArtifactExt(build))]
              /\ argSeed' = a
              /\ theme' = t
              /\ params' = p
    /\ seed' = Undefined
    /\ features' = <<>>
    /\ imagePaths' = <<>>
    /\ layers' = <<>>
    /\ post' = <<>>
    /\ pc' = "return"
    /\ UNCHANGED <<front, inflight, build, argv, assets, output, rnd, done, invocations>>

\* api_call(a, t, p) up to the cache probe, the file not being there;
\* buildImage is handed the seed readSeed returned.
CacheMiss ==
    /\ pc = "idle"
    /\ Len(done) < MaxCalls
    /\ \E c \in Startable :
          LET a == c[1]
              t == c[2]
              p == c[3]
              h == PathHashes[c]
          IN  /\ ~file_exists(output, OutputPath(a, h, ArtifactExt(build)))
              /\ pathHash' = h
              /\ argSeed' = a
              /\ theme' = t
              /\ params' = p
              /\ IF build = "rev1"
                 THEN /\ seed' = Undefined
                      /\ rnd' = rnd
                 ELSE /\ seed' = SeedOf(argv, a, rnd)
                      /\ rnd' = IF DrawsRandom(a) THEN 1 - rnd ELSE rnd
    /\ features' = <<>>
    /\ imagePaths' = <<>>
    /\ layers' = <<>>
    /\ post' = <<>>
    /\ result' = NoResult
    /\ pc' = "load"
    /\ UNCHANGED <<front, inflight, build, argv, assets, output, done, invocations>>

\* const imagePaths = generateImagePathsFromSeed(features, seed)
Select ==
    /\ pc = "select"
    /\ imagePaths' = generateImagePathsFromSeed(features, seed)
    /\ invocations' = invocations + 1
    /\ pc' = "layers"
    /\ UNCHANGED <<front, inflight, build, argv, assets, output, rnd, argSeed, theme, params,
                   pathHash, seed, features, layers, post, result, done>>

SomeUndefined(paths) == \E i \in 1..Len(paths) : paths[i] = Undefined

\* const layers = imagePaths.map(...): the overlay options.  In buildImage
\* of index.ts every path is first opened and transformed.
BuildLayers ==
    /\ pc = "layers"
    /\ build = "rev2" => ~SomeUndefined(imagePaths)
    /\ layers' = LayersOf(build, params, features, imagePaths)
    /\ pc' = "composite"
    /\ UNCHANGED <<front, inflight, build, argv, assets, output, rnd, argSeed, theme, params,
                   pathHash, seed, features, imagePaths, post, result, done,
                   invocations>>

\* Sharp(undefined) in buildImage of index.ts: the engine takes an absent
\* input for a stream that nobody writes to; metadata() on it rejects or
\* never settles.
BuildLayersStalls ==
    /\ pc = "layers"
    /\ build = "rev2"
    /\ SomeUndefined(imagePaths)
    /\ \E o \in {"error", "hung"} :
          result' = [outcome |-> o, path |-> Undefined]
    /\ pc' = "return"
    /\ UNCHANGED <<front, inflight, build, argv, assets, output, rnd, argSeed, theme, params,
                   pathHash, seed, features, imagePaths, layers, post, done,
                   invocations>>

SomeInputUndefined(ls) == \E i \in 1..Len(ls) : ls[i].input = Undefined

\* Sharp(background).composite(layers).png().toFile(
\*     `_output/${seed}${pathHash}.png`), the colours parsed first.
Composite ==
    /\ pc = "composite"
    /\ ColorsParse(build, params)
    /\ ~SomeInputUndefined(layers)
    /\ output' = (OutputPath(seed, pathHash, S_png)
                     :> Rendering(layers, ColorsOf(build, params)[1], <<>>))
                 @@ output
    /\ IF build = "svg"
       THEN /\ pc' = "transform"
            /\ result' = result
       ELSE /\ pc' = "return"
            /\ result' = [outcome |-> "built",
                          path |-> OutputPath(seed, pathHash, S_png)]
    /\ UNCHANGED <<front, inflight, build, argv, assets, rnd, argSeed, theme, params, pathHash,
                   seed, features, imagePaths, layers, post, done, invocations>>

\* hexToRgbA throws Bad Hex, or composite rejects an input that is
\* undefined.
CompositeRejects ==
    /\ pc = "composite"
    /\ ~ColorsParse(build, params) \/ SomeInputUndefined(layers)
    /\ result' = [outcome |-> "error", path |-> Undefined]
    /\ pc' = "return"
    /\ UNCHANGED <<front, inflight, build, argv, assets, output, rnd, argSeed, theme, params,
                   pathHash, seed, features, imagePaths, layers, post, done,
                   invocations>>

\* toFile rejects (the encoder or the disk fails).  Nothing in buildImage
\* or api_call removes what the engine has written by then: the file is
\* absent or cut short, as the engine leaves it.
CompositeWriteFails ==
    /\ pc = "composite"
    /\ ColorsParse(build, params)
    /\ ~SomeInputUndefined(layers)
    /\ \E left \in BOOLEAN :
          output' =
             IF left
             THEN (OutputPath(seed, pathHash, S_png)
                      :> Truncated(Rendering(layers, ColorsOf(build, params)[1],
                                             <<>>)))
                  @@ output
             ELSE output
    /\ result' = [outcome |-> "error", path |-> Undefined]
    /\ pc' = "return"
    /\ UNCHANGED <<front, inflight, build, argv, assets, rnd, argSeed, theme, params, pathHash,
                   seed, features, imagePaths, layers, post, done, invocations>>

\* applyTransformations(path, params) of the svg variant: the composited
\* file is replaced by its transformed self, then traced into the .svg.
Transform ==
    /\ pc = "transform"
    /\ post' = applyTransformationsFile(params)
    /\ LET png == OutputPath(seed, pathHash, S_png)
           svg == OutputPath(seed, pathHash, S_svg)
           traced == Rendering(output[png].layers, output[png].background,
                               applyTransformationsFile(params))
       IN  /\ output' = (png :> traced) @@ (svg :> traced) @@ output
           /\ result' = [outcome |-> "built", path |-> svg]
    /\ pc' = "return"
    /\ UNCHANGED <<front, inflight, build, argv, assets, rnd, argSeed, theme, params, pathHash,
                   seed, features, imagePaths, layers, done, invocations>>

\* applyTransformations of the svg variant rejects: one of its engine
\* calls or the trace fails after the first k operations went through.  The
\* composited .png stays where buildImage wrote it.
TransformRejects ==
    /\ pc = "transform"
    /\ \E k \in 0..Len(applyTransformationsFile(params)) :
          LET png == OutputPath(seed, pathHash, S_png)
          IN  /\ post' = SubSeq(applyTransformationsFile(params), 1, k)
              /\ output' =
                    (png :> Rendering(output[png].layers, output[png].background,
                                      SubSeq(applyTransformationsFile(params), 1, k)))
                    @@ output
    /\ result' = [outcome |-> "error", path |-> Undefined]
    /\ pc' = "return"
    /\ UNCHANGED <<front, inflight, build, argv, assets, rnd, argSeed, theme, params, pathHash,
                   seed, features, imagePaths, layers, done, invocations>>

\* api_call settles (or, hung, is given up by its caller).
Return ==
    /\ pc = "return"
    /\ done' = Append(done, [argSeed |-> argSeed, theme |-> theme,
                             params |-> params, outcome |-> result.outcome,
                             path |-> result.path])
    /\ pc' = "idle"
    /\ UNCHANGED <<front, inflight, build, argv, assets, output, rnd, argSeed, theme, params,
                   pathHash, seed, features, imagePaths, layers, post, result,
                   invocations>>

Next ==
    \/ CacheHit
    \/ CacheMiss
    \/ LoadCatalog
    \/ LoadCatalogRejects
    \/ Select
    \/ BuildLayers
    \/ BuildLayersStalls
    \/ Composite
    \/ CompositeRejects
    \/ CompositeWriteFails
    \/ Transform
    \/ TransformRejects
    \/ Return

Spec == Init /\ [][Next]_vars

\* ------------------------------------------------------------------------
\* Two requests at once: the HTTP handler is async, so a second api_call
\* with the same arguments can pass the cache probe while the first is
\* still awaiting.  Each await is a point where the other request may run.
\* ------------------------------------------------------------------------

RaceRequests == {1, 2}

S_mirrored == <<"_","m","i","r","r","o","r","e","d">>
S_rotated == <<"_","r","o","t","a","t","e","d">>
S_scaled == <<"_","s","c","a","l","e","d">>

\* path.replace('.png', '_mirrored.png') and its likes, on a path that ends
\* in its only '.png'.
TempPath(p, o) ==
    SubSeq(p, 1, Len(p) - Len(S_png))
    \o (CASE o.op = "flop" -> S_mirrored
          [] o.op = "rotate" -> S_rotated
          [] o.op = "resize" -> S_scaled)
    \o S_png

\* fs.unlinkSync / fs.renameSync on the files of _output/.
Without(files, f) == [g \in DOMAIN files \ {f} |-> files[g]]

\* The file `f` after one more operation of the engine.
Transformed(f, o) == Rendering(f.layers, f.background, Append(f.post, o))

InFlight(at, k, outcome) == [pc |-> at, k |-> k, outcome |-> outcome]

\* Both requests are past the probe, which found no file, and hold the
\* seed readSeed returned.
RaceInit ==
    /\ build \in Builds
    /\ argv \in ProcessArgvs
    /\ assets = FullLayout
    /\ output = NoFiles
    /\ rnd = 0
    /\ pc = "race"
    /\ argSeed = S_foo
    /\ theme = S_openpeeps
    /\ params \in {PlainParams, HttpParams(TRUE, S_45, S_fff, S_2)}
    /\ pathHash = pathHashOf(argSeed, theme, params)
    /\ seed = SeedOf(argv, argSeed, rnd)
    /\ features = <<>>
    /\ imagePaths = <<>>
    /\ layers = <<>>
    /\ post = <<>>
    /\ result = NoResult
    /\ done = <<>>
    /\ invocations = 0
    /\ inflight = [r \in RaceRequests |-> InFlight("load", 0, "none")]
    /\ front = NoFront

RacePng == OutputPath(seed, pathHash, S_png)

\* await loadFeaturesFromDir, then the selection and the layers.  The two
\* requests have the same arguments, so their catalogs, selections and
\* layers are the same values: one copy is kept.
RaceLoad(r) ==
    /\ inflight[r].pc = "load"
    /\ features' = loadFeaturesFromDir(build, assets, theme,
                                       ValueOf(Get(params, S_features))).features
    /\ imagePaths' = generateImagePathsFromSeed(features', seed)
    /\ layers' = LayersOf(build, params, features', imagePaths')
    /\ inflight' = [inflight EXCEPT ![r] = InFlight("composite", 0, "none")]
    /\ UNCHANGED <<front, build, argv, assets, output, rnd, pc, argSeed, theme,
                   params, pathHash, seed, post, result, done, invocations>>

\* await Sharp(background).composite(layers).png().toFile(path)
RaceComposite(r) ==
    /\ inflight[r].pc = "composite"
    /\ output' = (RacePng :> Rendering(layers, ColorsOf(build, params)[1], <<>>))
                 @@ output
    /\ inflight' =
          [inflight EXCEPT ![r] =
              IF build = "svg" THEN InFlight("op", 0, "none")
              ELSE InFlight("done", 0, "built")]
    /\ UNCHANGED <<front, build, argv, assets, rnd, pc, argSeed, theme, params,
                   pathHash, seed, features, imagePaths, layers, post, result,
                   done, invocations>>

RaceOps == applyTransformationsFile(params)

\* await Sharp(path).flop().toFile(outputPath) and its likes: reads the
\* composited file, rejects when it is not there.
RaceOpWrite(r) ==
    /\ inflight[r].pc = "op"
    /\ inflight[r].k < Len(RaceOps)
    /\ LET o == RaceOps[inflight[r].k + 1]
       IN  IF file_exists(output, RacePng)
           THEN /\ output' = (TempPath(RacePng, o) :> Transformed(output[RacePng], o))
                             @@ output
                /\ inflight' = [inflight EXCEPT ![r] =
                                   InFlight("rename", inflight[r].k, "none")]
           ELSE /\ output' = output
                /\ inflight' = [inflight EXCEPT ![r] =
                                   InFlight("done", inflight[r].k, "error")]
    /\ UNCHANGED <<front, build, argv, assets, rnd, pc, argSeed, theme, params,
                   pathHash, seed, features, imagePaths, layers, post, result,
                   done, invocations>>

\* fs.unlinkSync(path); fs.renameSync(outputPath, path): each throws when
\* its file is not there, the unlink having been done when the rename
\* throws.
RaceOpRename(r) ==
    /\ inflight[r].pc = "rename"
    /\ LET o == RaceOps[inflight[r].k + 1]
           temp == TempPath(RacePng, o)
       IN  IF ~file_exists(output, RacePng)
           THEN /\ output' = output
                /\ inflight' = [inflight EXCEPT ![r] =
                                   InFlight("done", inflight[r].k, "error")]
           ELSE IF ~file_exists(output, temp)
           THEN /\ output' = Without(output, RacePng)
                /\ inflight' = [inflight EXCEPT ![r] =
                                   InFlight("done", inflight[r].k, "error")]
           ELSE /\ output' = (RacePng :> output[temp]) @@ Without(output, temp)
                /\ inflight' = [inflight EXCEPT ![r] =
                                   InFlight("op", inflight[r].k + 1, "none")]
    /\ UNCHANGED <<front, build, argv, assets, rnd, pc, argSeed, theme, params,
                   pathHash, seed, features, imagePaths, layers, post, result,
                   done, invocations>>

\* potrace.trace(path, ...): reads the file, writes the .svg next to it.
RaceTrace(r) ==
    /\ inflight[r].pc = "op"
    /\ inflight[r].k = Len(RaceOps)
    /\ IF file_exists(output, RacePng)
       THEN /\ output' = (OutputPath(seed, pathHash, S_svg) :> output[RacePng])
                         @@ output
            /\ inflight' = [inflight EXCEPT ![r] =
                               InFlight("done", inflight[r].k, "built")]
       ELSE /\ output' = output
            /\ inflight' = [inflight EXCEPT ![r] =
                               InFlight("done", inflight[r].k, "error")]
    /\ UNCHANGED <<front, build, argv, assets, rnd, pc, argSeed, theme, params,
                   pathHash, seed, features, imagePaths, layers, post, result,
                   done, invocations>>

RaceNext ==
    \E r \in RaceRequests :
        \/ RaceLoad(r)
        \/ RaceComposite(r)
        \/ RaceOpWrite(r)
        \/ RaceOpRename(r)
        \/ RaceTrace(r)

SpecRace == RaceInit /\ [][RaceNext]_vars

\* ------------------------------------------------------------------------
\* Two requests for one fingerprint on the server of the index.ts revisions
\* ------------------------------------------------------------------------

\* A request in the handler: where it is, how its api_call went and what
\* the handler read for it.
Serving(at, outcome, body) == [pc |-> at, outcome |-> outcome, body |-> body]

\* Both requests have been received; neither has probed yet.
ServeInit ==
    /\ build \in {"rev1", "rev2"}
    /\ argv = NodeArgv
    /\ assets = FullLayout
    /\ output = NoFiles
    /\ rnd = 0
    /\ pc = "serve"
    /\ argSeed = S_foo
    /\ theme = S_openpeeps
    /\ params \in {PlainParams, HttpParams(TRUE, S_45, S_fff, S_2)}
    /\ pathHash = pathHashOf(argSeed, theme, params)
    /\ seed = SeedOf(argv, argSeed, rnd)
    /\ features = <<>>
    /\ imagePaths = <<>>
    /\ layers = <<>>
    /\ post = <<>>
    /\ result = NoResult
    /\ done = <<>>
    /\ invocations = 0
    /\ inflight = [r \in RaceRequests |-> Serving("probe", "none", <<>>)]
    /\ front = NoFront

\* `_output/${seed}${pathHash}.png`: the file toFile writes, which is the
\* file the probe looks for in a process without arguments.
ServePng == OutputPath(seed, pathHash, S_png)

\* if (file_exists(...)) return the path: the cache-hit branch.
ServeProbeHit(r) ==
    /\ inflight[r].pc = "probe"
    /\ file_exists(output, OutputPath(argSeed, pathHash, S_png))
    /\ inflight' = [inflight EXCEPT ![r] = Serving("read", "hit", <<>>)]
    /\ UNCHANGED <<front, build, argv, assets, output, rnd, pc, argSeed, theme,
                   params, pathHash, seed, features, imagePaths, layers, post,
                   result, done, invocations>>

\* The probe finds no file: buildImage up to its first await.
ServeProbeMiss(r) ==
    /\ inflight[r].pc = "probe"
    /\ ~file_exists(output, OutputPath(argSeed, pathHash, S_png))
    /\ inflight' = [inflight EXCEPT ![r] = Serving("load", "none", <<>>)]
    /\ UNCHANGED <<front, build, argv, assets, output, rnd, pc, argSeed, theme,
                   params, pathHash, seed, features, imagePaths, layers, post,
                   result, done, invocations>>

\* await loadFeaturesFromDir, the selection and the layers (one copy, the
\* two requests having the same arguments).
ServeLoad(r) ==
    /\ inflight[r].pc = "load"
    /\ features' = loadFeaturesFromDir(build, assets, theme,
                                       ValueOf(Get(params, S_features))).features
    /\ imagePaths' = generateImagePathsFromSeed(features', seed)
    /\ layers' = LayersOf(build, params, features', imagePaths')
    /\ inflight' = [inflight EXCEPT ![r] = Serving("open", "none", <<>>)]
    /\ UNCHANGED <<front, build, argv, assets, output, rnd, pc, argSeed, theme,
                   params, pathHash, seed, post, result, done, invocations>>

\* toFile(path) begins, off the event loop: the file is created, or cut
\* to nothing when it is there, before the image has been encoded into it.
ServeWriteOpens(r) ==
    /\ inflight[r].pc = "open"
    /\ output' = (ServePng :> Truncated(Rendering(layers, ColorsOf(build, params)[1],
                                                  <<>>)))
                 @@ output
    /\ inflight' = [inflight EXCEPT ![r] = Serving("write", "none", <<>>)]
    /\ UNCHANGED <<front, build, argv, assets, rnd, pc, argSeed, theme, params,
                   pathHash, seed, features, imagePaths, layers, post, result,
                   done, invocations>>

\* toFile(path) resolves: the image is in the file; api_call returns.
ServeWriteCompletes(r) ==
    /\ inflight[r].pc = "write"
    /\ output' = (ServePng :> Rendering(layers, ColorsOf(build, params)[1], <<>>))
                 @@ output
    /\ inflight' = [inflight EXCEPT ![r] = Serving("read", "built", <<>>)]
    /\ UNCHANGED <<front, build, argv, assets, rnd, pc, argSeed, theme, params,
                   pathHash, seed, features, imagePaths, layers, post, result,
                   done, invocations>>

\* const image = await getImageFromPath(result); 200 and res.end(image).
ServeRead(r) ==
    /\ inflight[r].pc = "read"
    /\ inflight' = [inflight EXCEPT
                      ![r] = Serving("sent", inflight[r].outcome, output[ServePng])]
    /\ UNCHANGED <<front, build, argv, assets, output, rnd, pc, argSeed, theme,
                   params, pathHash, seed, features, imagePaths, layers, post,
                   result, done, invocations>>

ServeNext ==
    \E r \in RaceRequests :
        \/ ServeProbeHit(r)
        \/ ServeProbeMiss(r)
        \/ ServeLoad(r)
        \/ ServeWriteOpens(r)
        \/ ServeWriteCompletes(r)
        \/ ServeRead(r)

SpecServe == ServeInit /\ [][ServeNext]_vars

\* ------------------------------------------------------------------------
\* server.ts: one request after another through the handler
\* ------------------------------------------------------------------------

NoRequest == [pathname |-> <<>>, query |-> <<>>]

\* res.writeHead(status, {'Content-Type': type}); res.end(body)
Response(status, type, body) == [status |-> status, type |-> type, body |-> body]

\* The server listens; every directory is there, or face holds no image, or
\* face is missing.
FaceMissingLayout == [FullLayout EXCEPT ![S_face] = Missing]

HttpLayouts == {FullLayout, FaceEmptyLayout, FaceMissingLayout}

HttpInit ==
    /\ build \in Builds
    /\ argv = NodeArgv
    /\ assets \in HttpLayouts
    /\ output = NoFiles
    /\ rnd = 0
    /\ pc = "idle"
    /\ argSeed = Undefined
    /\ theme = Undefined
    /\ params = <<>>
    /\ pathHash = FromInt(0)
    /\ seed = Undefined
    /\ features = <<>>
    /\ imagePaths = <<>>
    /\ layers = <<>>
    /\ post = <<>>
    /\ result = NoResult
    /\ done = <<>>
    /\ invocations = 0
    /\ inflight = NoneInFlight
    /\ front = [kind |-> "http", stage |-> "listening", request |-> NoRequest,
                sent |-> <<>>]

\* The handler up to its await of api_call, or through its else branch.
HttpReceive ==
    /\ front.kind = "http"
    /\ front.stage \in {"listening", "responded"}
    /\ pc = "idle"
    /\ Len(done) < MaxCalls
    /\ \E pathname \in Pathnames, q \in Queries :
          front' = [kind |-> "http",
                    stage |-> IF pathname = S_root THEN "calling" ELSE "responded",
                    request |-> [pathname |-> pathname, query |-> q],
                    sent |-> IF pathname = S_root THEN <<>>
                             ELSE <<Response(500, "text/plain", "Invalid request.")>>]
    /\ result' = NoResult
    /\ UNCHANGED <<inflight, build, argv, assets, output, rnd, pc, argSeed, theme,
                   params, pathHash, seed, features, imagePaths, layers, post,
                   done, invocations>>

\* The handler after api_call settled: getImageFromPath(result) and the 200,
\* or the catch block.
HttpRespond ==
    /\ front.kind = "http"
    /\ front.stage = "calling"
    /\ pc = "idle"
    /\ result.outcome \in {"built", "hit", "error"}
    /\ front' = [front EXCEPT
                   !.stage = "responded",
                   !.sent = Append(@,
                       IF result.outcome \in {"built", "hit"}
                          /\ file_exists(output, result.path)
                       THEN Response(200, "image/png", "image")
                       ELSE Response(500, "text/plain", "An error occurred"))]
    /\ UNCHANGED <<inflight, build, argv, assets, output, rnd, pc, argSeed, theme,
                   params, pathHash, seed, features, imagePaths, layers, post,
                   result, done, invocations>>

HttpNext ==
    \/ HttpReceive
    \/ CacheHit
    \/ CacheMiss
    \/ LoadCatalog
    \/ LoadCatalogRejects
    \/ Select
    \/ BuildLayers
    \/ BuildLayersStalls
    \/ Composite
    \/ CompositeRejects
    \/ CompositeWriteFails
    \/ Transform
    \/ TransformRejects
    \/ Return
    \/ HttpRespond

SpecHttp == HttpInit /\ [][HttpNext]_vars

\* ------------------------------------------------------------------------
\* main(): one process after another on the same _output/
\* ------------------------------------------------------------------------

\* How a process ended: its exit code and whether console.error printed.
Exit(code, printed) == [code |-> code, stderr |-> printed]

CliInit ==
    /\ build \in Builds
    /\ argv = NodeArgv
    /\ assets \in HttpLayouts
    /\ output = NoFiles
    /\ rnd = 0
    /\ pc = "idle"
    /\ argSeed = Undefined
    /\ theme = Undefined
    /\ params = <<>>
    /\ pathHash = FromInt(0)
    /\ seed = Undefined
    /\ features = <<>>
    /\ imagePaths = <<>>
    /\ layers = <<>>
    /\ post = <<>>
    /\ result = NoResult
    /\ done = <<>>
    /\ invocations = 0
    /\ inflight = NoneInFlight
    /\ front = [kind |-> "cli", stage |-> "shell", request |-> NoRequest,
                sent |-> <<>>]

\* node index.js ...: main() up to its await of api_call.
CliStart ==
    /\ front.kind = "cli"
    /\ front.stage \in {"shell", "exited"}
    /\ pc = "idle"
    /\ Len(done) < MaxCalls
    /\ \E args \in CommandLines : argv' = args
    /\ front' = [front EXCEPT !.stage = "calling", !.sent = <<>>]
    /\ result' = NoResult
    /\ UNCHANGED <<inflight, build, assets, output, rnd, pc, argSeed, theme,
                   params, pathHash, seed, features, imagePaths, layers, post,
                   done, invocations>>

\* main() after api_call: the catch block prints the error and main
\* returns; nothing sets an exit code, so the process ends with 0.  When
\* api_call never settles nothing is left to keep the process alive, and it
\* ends with 0 as well, main's catch block not having run.
CliExit ==
    /\ front.kind = "cli"
    /\ front.stage = "calling"
    /\ pc = "idle"
    /\ result.outcome # "none"
    /\ front' = [front EXCEPT !.stage = "exited",
                              !.sent = <<Exit(0, result.outcome = "error")>>]
    /\ UNCHANGED <<inflight, build, argv, assets, output, rnd, pc, argSeed, theme,
                   params, pathHash, seed, features, imagePaths, layers, post,
                   result, done, invocations>>

CliNext ==
    \/ CliStart
    \/ CacheHit
    \/ CacheMiss
    \/ LoadCatalog
    \/ LoadCatalogRejects
    \/ Select
    \/ BuildLayers
    \/ BuildLayersStalls
    \/ Composite
    \/ CompositeRejects
    \/ CompositeWriteFails
    \/ Transform
    \/ TransformRejects
    \/ Return
    \/ CliExit

SpecCli == CliInit /\ [][CliNext]_vars

\* ------------------------------------------------------------------------
\* hexToRgbA called on its own
\* ------------------------------------------------------------------------

S_ffffff == <<"#","f","f","f","f","f","f">>
S_abc == <<"#","a","b","c">>
S_aabbcc == <<"#","a","a","b","b","c","c">>
S_notacolor == <<"n","o","t","a","c","o","l","o","r">>

\* '#', two hexadecimal digits (a decimal one and an upper-case letter) and
\* a letter that is none; the examples below bring the lower-case digits.
HexAlphabet == {"#", "0", "F", "g"}

\* Every string over the alphabet up to the length that matters, and the
\* examples of the documentation.
HexInputs ==
    SeqsUpTo(HexAlphabet, MaxHexLen) \cup {S_ffffff, S_abc, S_aabbcc, S_notacolor}

HexInit ==
    /\ build = "rev2"
    /\ argv = NodeArgv
    /\ assets = FullLayout
    /\ output = NoFiles
    /\ rnd = 0
    /\ pc = "idle"
    /\ argSeed = Undefined
    /\ theme = Undefined
    /\ params = <<>>
    /\ pathHash = FromInt(0)
    /\ seed = Undefined
    /\ features = <<>>
    /\ imagePaths = <<>>
    /\ layers = <<>>
    /\ post = <<>>
    /\ result = NoResult
    /\ done = <<>>
    /\ invocations = 0
    /\ inflight = NoneInFlight
    /\ \E hex \in HexInputs :
          front = [kind |-> "hexToRgbA", stage |-> "called", request |-> hex,
                   sent |-> <<>>]

\* hexToRgbA(hex) returns its colour or throws.
CallHexToRgbA ==
    /\ front.kind = "hexToRgbA"
    /\ front.stage = "called"
    /\ front' = [front EXCEPT
                   !.stage = IF hexToRgbA(front.request).ok THEN "returned"
                             ELSE "thrown",
                   !.sent = <<hexToRgbA(front.request)>>]
    /\ UNCHANGED <<inflight, build, argv, assets, output, rnd, pc, argSeed, theme,
                   params, pathHash, seed, features, imagePaths, layers, post,
                   result, done, invocations>>

HexNext == CallHexToRgbA

SpecHex == HexInit /\ [][HexNext]_vars

\* ------------------------------------------------------------------------
\* loadFeatures with its directory reads in flight
\* ------------------------------------------------------------------------

\* The promise of one loadFeature(fdata, zIndex): pending, or fulfilled with
\* its feature as the nth of the reads to finish.
Reading == [pc |-> "reading", value |-> <<>>, nth |-> 0]

Loaded(value, nth) == [pc |-> "loaded", value |-> value, nth |-> nth]

\* The featureData loadFeatures was called with.
LoadFeatureData == FeatureDataOf(build, theme, ValueOf(Get(params, S_features)))

LoadedCount == Cardinality({i \in DOMAIN inflight : inflight[i].pc = "loaded"})

\* The features in the order in which their reads finished.
CompletionOrder(promises) ==
    [n \in 1..Len(promises) |->
        promises[CHOOSE i \in 1..Len(promises) : promises[i].nth = n].value]

\* Promise.all(features): the values in the order of the promises.
PromiseAll(promises) == [i \in 1..Len(promises) |-> promises[i].value]

\* loadFeatures has mapped loadFeature over featureData: every read is
\* pending.
LoadInit ==
    /\ build \in Builds
    /\ argv = NodeArgv
    /\ assets \in CatalogLayouts
    /\ output = NoFiles
    /\ rnd = 0
    /\ pc = "load"
    /\ argSeed = S_foo
    /\ theme = S_openpeeps
    /\ \/ params = CliParams(FALSE, S_NaN, Undefined, S_NaN, Undefined)
       \/ \E req \in CatalogRequests :
             params = CliParams(FALSE, S_NaN, Undefined, S_NaN, req)
    /\ pathHash = FromInt(0)
    /\ seed = S_foo
    /\ features = <<>>
    /\ imagePaths = <<>>
    /\ layers = <<>>
    /\ post = <<>>
    /\ result = NoResult
    /\ done = <<>>
    /\ invocations = 0
    /\ inflight = [i \in 1..Len(LoadFeatureData) |-> Reading]
    /\ front = NoFront

\* One loadFeature finishes, in whatever order the reads come back.
LoadFeatureSettles ==
    /\ pc = "load"
    /\ \E i \in DOMAIN inflight :
          /\ inflight[i].pc = "reading"
          /\ readdir(assets, LoadFeatureData[i].dir).exists
          /\ inflight' = [inflight EXCEPT
                            ![i] = Loaded(loadFeature(assets, LoadFeatureData[i], i - 1),
                                          LoadedCount + 1)]
    /\ UNCHANGED <<front, build, argv, assets, output, rnd, pc, argSeed, theme,
                   params, pathHash, seed, features, imagePaths, layers, post,
                   result, done, invocations>>

\* One loadFeature rejects (ENOENT), and Promise.all with it.
LoadFeatureRejects ==
    /\ pc = "load"
    /\ \E i \in DOMAIN inflight :
          /\ inflight[i].pc = "reading"
          /\ ~readdir(assets, LoadFeatureData[i].dir).exists
    /\ result' = [outcome |-> "error", path |-> Undefined]
    /\ pc' = "return"
    /\ UNCHANGED <<front, inflight, build, argv, assets, output, rnd, argSeed,
                   theme, params, pathHash, seed, features, imagePaths, layers,
                   post, done, invocations>>

\* return Promise.all(features), every loadFeature having finished.
PromiseAllResolves ==
    /\ pc = "load"
    /\ \A i \in DOMAIN inflight : inflight[i].pc = "loaded"
    /\ features' = PromiseAll(inflight)
    /\ pc' = "select"
    /\ UNCHANGED <<front, inflight, build, argv, assets, output, rnd, argSeed,
                   theme, params, pathHash, seed, imagePaths, layers, post,
                   result, done, invocations>>

LoadNext == LoadFeatureSettles \/ LoadFeatureRejects \/ PromiseAllResolves

SpecLoad == LoadInit /\ [][LoadNext]_vars

\* ------------------------------------------------------------------------
\* Claims about the selection
\* ------------------------------------------------------------------------

RefStep(h, c) == ToInt32(Norm(h[1] * 31, h[2] * 31 + c))

RECURSIVE RefHash(_)
RefHash(s) ==
    IF s = <<>> THEN <<0, 0>>
    ELSE RefStep(RefHash(SubSeq(s, 1, Len(s) - 1)), charCodeAt(s[Len(s)]))

\* Some step of the unwrapped recurrence leaves the signed 32-bit range.
RECURSIVE Overflows(_)
Overflows(s) ==
    /\ s # <<>>
    /\ LET h == RefHash(SubSeq(s, 1, Len(s) - 1))
           v == Norm(h[1] * 31, h[2] * 31 + charCodeAt(s[Len(s)]))
       IN  v # ToInt32(v) \/ Overflows(SubSeq(s, 1, Len(s) - 1))

\* C2: hashString equals the multiply-by-31 rolling hash wrapped to signed
\* 32 bits at every step, on every prefix of the seed; the hash of "" is 0
\* and the hash of "foo" is 101574.
C2_HashIsRolling31 ==
    /\ \A k \in 0..Len(seed) :
          hashString(SubSeq(seed, 1, k)) = RefHash(SubSeq(seed, 1, k))
    /\ hashString(<<>>) = <<0, 0>>
    /\ ToInt(hashString(S_foo)) = 101574

C2_Witness ==
    /\ invocations >= 1
    /\ Overflows(seed)
    /\ IsNeg(hashString(seed))

\* |h| mod n by the mathematical modulus (the % of TLA+ is never negative).
MathMod(h, n) == (((h[1] % n) * (Half % n)) + h[2]) % n

AbsMod(h, n) == IF h[1] < 0 THEN (n - MathMod(h, n)) % n ELSE MathMod(h, n)

AllNonEmpty(catalog) == \A i \in 1..Len(catalog) : Len(catalog[i].choices) >= 1

PositionIn(choices, p) == {k \in 1..Len(choices) : choices[k] = p}

\* C3: on a catalog without empty choices the selection has one entry per
\* feature, in catalog order, the entry of feature i being
\* choices_i[abs(hash(seed)) mod length(choices_i)]; features with equally
\* many choices get the same index.
C3_SelectionByAbsHashMod ==
    (invocations >= 1 /\ AllNonEmpty(features)) =>
        /\ Len(imagePaths) = Len(features)
        /\ \A i \in 1..Len(features) :
              imagePaths[i] =
                 features[i].choices[
                     AbsMod(RefHash(seed), Len(features[i].choices)) + 1]
        /\ \A i, j \in 1..Len(features) :
              Len(features[i].choices) = Len(features[j].choices) =>
                 PositionIn(features[i].choices, imagePaths[i])
                    = PositionIn(features[j].choices, imagePaths[j])

C3_Witness ==
    /\ invocations >= 1
    /\ Len(features) = 3
    /\ Len(features[1].choices) = 3
    /\ Len(features[2].choices) = 3
    /\ Len(features[3].choices) = 2
    /\ imagePaths[1] = features[1].choices[3]
    /\ imagePaths[3] = features[3].choices[1]

\* C4: whatever the hash, -2^31 included, a feature with n >= 1 choices
\* gets one of its own choices (an index in 0..n-1), and its only choice
\* when n = 1.
C4_ModuloSafety ==
    invocations >= 1 =>
        \A i \in 1..Len(features) :
            LET c == features[i].choices
            IN  /\ Len(c) >= 1 => PositionIn(c, imagePaths[i]) # {}
                /\ Len(c) = 1 => imagePaths[i] = c[1]

C4_Witness ==
    /\ invocations >= 1
    /\ hashString(seed) = <<-32768, 0>>
    /\ \E i \in 1..Len(features) :
          /\ Len(features[i].choices) = 3
          /\ imagePaths[i] = features[i].choices[3]
    /\ \E i \in 1..Len(features) :
          /\ Len(features[i].choices) = 1
          /\ imagePaths[i] = features[i].choices[1]

\* ------------------------------------------------------------------------
\* Claims about the catalog
\* ------------------------------------------------------------------------

Names(catalog) == [i \in 1..Len(catalog) |-> catalog[i].name]

Requested == ValueOf(Get(params, S_features))

IsRequested(n) == Requested # Undefined /\ \E i \in 1..Len(Requested) : Requested[i] = n

\* head, face, facialHair, each kept when the request holds it.
CanonicalOf ==
    (IF IsRequested(S_head) THEN <<S_head>> ELSE <<>>)
    \o (IF IsRequested(S_face) THEN <<S_face>> ELSE <<>>)
    \o (IF IsRequested(S_facialHair) THEN <<S_facialHair>> ELSE <<>>)

NonEmptyRequest == Requested # Undefined /\ Len(Requested) >= 1

\* The directory of a recognized feature name under the theme.
DirOfName(n) ==
    pathJoin(AssetsDirOf(theme), IF n = S_facialHair THEN S_facial_hair ELSE n)

C7_DefaultFeatures ==
    pc = "select" =>
        /\ ~NonEmptyRequest => Names(features) = <<S_head, S_face>>
        /\ (\E i \in 1..Len(features) : features[i].name = S_facialHair)
              => IsRequested(S_facialHair)

C7_Witness ==
    /\ pc = "select"
    /\ Requested = <<>>
    /\ Names(features) = <<S_head, S_face>>
    /\ assets[S_facial_hair] = ThreeImageDir

\* ------------------------------------------------------------------------
\* Claims about the pipeline
\* ------------------------------------------------------------------------

\* C5: a requested feature whose directory yields no qualifying image makes
\* the render fail at the catalog or at the selection: no selection holds
\* an undefined entry, and the pipeline gets past the selection only with
\* a catalog whose every feature has a choice.
C5_EmptyFeatureFailsExplicitly ==
    /\ ~SomeUndefined(imagePaths)
    /\ pc \in {"layers", "composite", "transform"} => AllNonEmpty(features)

SameCall(x, y) ==
    /\ x.argSeed = y.argSeed
    /\ x.theme = y.theme
    /\ x.params = y.params

\* C8: after an api_call(seed, theme, params) that returned a path, every
\* later api_call with the same seed, theme and params takes the cache-hit
\* branch and returns the same path.
C8_IdempotentCaching ==
    \A i, j \in 1..Len(done) :
        (/\ i < j
         /\ SameCall(done[i], done[j])
         /\ done[i].argSeed # Undefined
         /\ done[i].outcome \in {"built", "hit"})
        => /\ done[j].outcome = "hit"
           /\ done[j].path = done[i].path

AllThree(obj) ==
    /\ Truthy(Get(obj, S_mirror))
    /\ Truthy(Get(obj, S_rotate))
    /\ Truthy(Get(obj, S_scale))

OpNames(ops) == [i \in 1..Len(ops) |-> ops[i].op]

MirrorRotateScale == <<"flop", "rotate", "resize">>

\* The file api_call has just built.
Built == output[result.path]

NoLayerTransformed(file) ==
    \A i \in 1..Len(file.layers) : file.layers[i].ops = <<>>

C10_LayerPlacement ==
    (pc = "composite" \/ result.outcome = "built") =>
        /\ Len(layers) = Len(features)
        /\ \A i \in 1..Len(layers) :
              /\ layers[i].input = imagePaths[i]
              /\ layers[i].top = features[i].top
              /\ layers[i].left = features[i].left

\* The files a call that built its image leaves: the file it returns and,
\* for an .svg, the .png next to it.
ArtifactsOf(call) ==
    {call.path, SubSeq(call.path, 1, Len(call.path) - Len(S_png)) \o S_png}

\* C11: a render that aborts with an error leaves no file behind: between
\* calls every file of _output/ is the artifact of a call that built its
\* image, and a call takes the cache-hit branch only on the path an earlier
\* call returned.
C11_NoPartialArtifact ==
    /\ pc = "idle" =>
          \A f \in DOMAIN output :
              \E i \in 1..Len(done) :
                  done[i].outcome \in {"built", "hit"} /\ f \in ArtifactsOf(done[i])
    /\ \A j \in 1..Len(done) :
          done[j].outcome = "hit" =>
              \E i \in 1..(j - 1) :
                  done[i].outcome = "built" /\ done[i].path = done[j].path

\* ------------------------------------------------------------------------
\* Claims about concurrent requests
\* ------------------------------------------------------------------------

\* What one api_call with these arguments, alone, leaves at the path it
\* returns.
SequentialRender ==
    Rendering(LayersOf(build, params, features, imagePaths),
              ColorsOf(build, params)[1],
              IF build = "svg" THEN applyTransformationsFile(params) ELSE <<>>)

RaceArtifact == OutputPath(seed, pathHash, ArtifactExt(build))

BothDone == \A r \in RaceRequests : inflight[r].pc = "done"

\* C12: two requests with the same fingerprint that both passed the
\* existence check both complete, in every interleaving, and the file at
\* their path then holds what one sequential render of the inputs produces.
C12_IdempotentRace ==
    BothDone =>
        /\ \A r \in RaceRequests : inflight[r].outcome = "built"
        /\ file_exists(output, RaceArtifact)
        /\ output[RaceArtifact] = SequentialRender


\* ------------------------------------------------------------------------
\* Claims about the front ends
\* ------------------------------------------------------------------------

Answered == front.kind = "http" /\ front.stage = "responded"

RenderServed ==
    /\ result.outcome \in {"built", "hit"}
    /\ file_exists(output, result.path)

CoreSkinName == IF build = "svg" THEN S_skinColor ELSE S_skincolor

CatalogLoadedForRequest ==
    /\ front.kind = "http"
    /\ front.stage = "calling"
    /\ pc = "select"

\* C14: when the catalog of a GET / request has been built, it is the catalog
\* of the feature names given in the request's features[] (the default one
\* when there are none), and the skincolor value of the query is in the
\* params under the name the core reads.
C14_HttpParamsReachCore ==
    CatalogLoadedForRequest =>
        /\ features = loadFeaturesFromDir(build, assets, theme,
                                          front.request.query.features).features
        /\ ValueOf(Get(params, CoreSkinName)) = front.request.query.skincolor

Exited == front.kind = "cli" /\ front.stage = "exited"

\* C15: a command-line run ends with exit code 0 exactly when its render
\* succeeded, and when api_call failed the error was printed and the exit
\* code is not 0.
C15_CliOutcome ==
    Exited =>
        /\ front.sent[1].code = 0 <=> result.outcome \in {"built", "hit"}
        /\ result.outcome = "error" =>
               front.sent[1].stderr /\ front.sent[1].code # 0

\* ------------------------------------------------------------------------
\* Claims about colours
\* ------------------------------------------------------------------------

\* The value of a hexadecimal digit, from its character code.
DigitValue(c) ==
    IF CodeOf(c) \in 48..57 THEN CodeOf(c) - 48
    ELSE IF CodeOf(c) \in 97..102 THEN CodeOf(c) - 87
    ELSE CodeOf(c) - 55

IsHexChar(c) ==
    \/ CodeOf(c) \in 48..57
    \/ CodeOf(c) \in 97..102
    \/ CodeOf(c) \in 65..70

ByteOf(high, low) == DigitValue(high) * 16 + DigitValue(low)

HexCalled == front.kind = "hexToRgbA" /\ front.stage # "called"

\* C16: hexToRgbA returns a colour exactly for '#' followed by three or six
\* hexadecimal digits and throws for every other string; for six digits the
\* colour is the three bytes with alpha 1 ("#ffffff" gives 255, 255, 255,
\* 1); for three digits it is the colour of the string with each digit
\* doubled.
C16_ColourParsing ==
    HexCalled =>
        LET hex == front.request
            out == front.sent[1]
            wellFormed == /\ Len(hex) \in {4, 7}
                          /\ hex[1] = "#"
                          /\ \A i \in 2..Len(hex) : IsHexChar(hex[i])
        IN  /\ out.ok <=> wellFormed
            /\ (front.stage = "returned") <=> wellFormed
            /\ wellFormed /\ Len(hex) = 7 =>
                   out = [ok |-> TRUE, r |-> ByteOf(hex[2], hex[3]),
                          g |-> ByteOf(hex[4], hex[5]),
                          b |-> ByteOf(hex[6], hex[7]), alpha |-> 1]
            /\ wellFormed /\ Len(hex) = 4 =>
                   out = [ok |-> TRUE, r |-> ByteOf(hex[2], hex[2]),
                          g |-> ByteOf(hex[3], hex[3]),
                          b |-> ByteOf(hex[4], hex[4]), alpha |-> 1]
            /\ hex = S_ffffff =>
                   out = [ok |-> TRUE, r |-> 255, g |-> 255, b |-> 255, alpha |-> 1]
            /\ hex = S_abc => out = hexToRgbA(S_aabbcc)
            /\ ~wellFormed => out = BadHex /\ front.stage = "thrown"

\* The three-digit colour "#abc" has been parsed.
C16_Witness ==
    /\ HexCalled
    /\ front.request = S_abc
    /\ front.stage = "returned"
    /\ front.sent[1].r = 170

ColourNames == {S_background, CoreSkinName, S_hairColor}

\* A colour parameter is there and is no hex colour.
InvalidColour(obj) ==
    \E name \in ColourNames :
        Truthy(Get(obj, name)) /\ ~IsHexColor(Get(obj, name).v)

Settled == pc = "return" /\ result.outcome # "hit"

\* C17: a render with a background, skin or hair colour that is there and
\* is no hex colour ends with an error and leaves no file at its path; a
\* render without a background has an opaque white canvas.
C17_InvalidColourIsHardError ==
    Settled =>
        /\ InvalidColour(params) =>
               /\ result.outcome = "error"
               /\ ~file_exists(output, OutputPath(seed, pathHash, S_png))
               /\ ~file_exists(output, OutputPath(seed, pathHash, S_svg))
        /\ result.outcome = "built" /\ ~Truthy(Get(params, S_background)) =>
               output[result.path].background = White

\* ------------------------------------------------------------------------
\* More claims about the catalog
\* ------------------------------------------------------------------------

IsFacialHair(feature) == feature.name \in {S_facialHair, S_facial_hair}

\* C18: a catalog built for a request that names facial-hair, as the
\* documentation spells it, holds the facial hair feature, above head and
\* face.
C18_DocumentedNameHonoured ==
    pc = "select" /\ IsRequested(S_facial_hair) =>
        \E i \in 1..Len(features) :
            /\ IsFacialHair(features[i])
            /\ \A j \in 1..Len(features) :
                   features[j].name \in {S_head, S_face} =>
                       features[j].zIndex < features[i].zIndex

EndsWith(text, suffix) ==
    /\ Len(text) >= Len(suffix)
    /\ SubSeq(text, Len(text) - Len(suffix) + 1, Len(text)) = suffix

\* A regular file named <something>.svg, .png, .jpg or .jpeg.
Qualifies(entry) ==
    /\ entry.isFile
    /\ \E ext \in {S_svg, S_png, S_jpg, S_jpeg} :
           EndsWith(entry.name, ext) /\ Len(entry.name) > Len(ext)

ListingOf(feature) == readdir(assets, DirOfName(feature.name)).entries

\* C19: the choices of every loaded feature are the entries of its
\* directory that are regular files with the extension .svg, .png, .jpg or
\* .jpeg, as paths under the directory, in the order of the listing;
\* sub-directories and files with another extension are not among them.
C19_AssetFiltering ==
    pc = "select" =>
        \A i \in 1..Len(features) :
            LET kept == SelectSeq(ListingOf(features[i]), Qualifies)
            IN  features[i].choices =
                    [k \in 1..Len(kept) |->
                        DirOfName(features[i].name) \o <<"/">> \o kept[k].name]

\* A catalog with a feature whose directory holds three images and a text
\* file, and one whose directory holds no image but a sub-directory old.svg,
\* a file .png and a file e.PNG.
C19_Witness ==
    /\ pc = "select"
    /\ \E i, j \in 1..Len(features) :
          /\ ListingOf(features[i]) = ThreeImageDir.entries
          /\ Len(features[i].choices) = 3
          /\ ListingOf(features[j]) = NoImageDir.entries
          /\ features[j].choices = <<>>

\* C20: in every catalog loadFeatures returns, the feature at position i
\* (from 0) has zIndex i, so the values are non-negative, pairwise distinct
\* and strictly increasing, and the features are those of the input list in
\* its order, in whatever order the directory reads finished.
C20_ZIndexByPosition ==
    pc = "select" =>
        /\ Len(features) = Len(LoadFeatureData)
        /\ \A i \in 1..Len(features) :
               /\ features[i].zIndex = i - 1
               /\ features[i].zIndex >= 0
               /\ features[i].name = LoadFeatureData[i].name
        /\ \A i, j \in 1..Len(features) :
               i < j => features[i].zIndex < features[j].zIndex

\* A catalog of three features whose reads finished in the reverse of the
\* input order.
C20_Witness ==
    /\ pc = "select"
    /\ Len(features) = 3
    /\ \A i \in 1..3 : inflight[i].nth = 4 - i

\* ------------------------------------------------------------------------
\* Claims about the seed and the cache
\* ------------------------------------------------------------------------

SeedArgumentGiven == argSeed # Undefined /\ argSeed # <<>>

\* The file api_call probes before it renders.
Probed == OutputPath(argSeed, pathHash, ArtifactExt(build))

\* C21: when api_call is given a non-empty seed, the seed it selects with
\* and names the file after is that argument, whatever process.argv is, and
\* the path it returns after a render is the path it probes.
C21_SeedThreading ==
    SeedArgumentGiven =>
        /\ pc \in {"select", "layers", "composite", "transform"} => seed = argSeed
        /\ pc = "return" /\ result.outcome = "built" =>
               /\ result.path = Probed
               /\ file_exists(output, Probed)

RandomSeeds == {RandomSeedText(0), RandomSeedText(1)}

\* C22: a request without a seed renders with a freshly drawn random seed
\* and never takes the cache-hit branch: no file of a seeded request, the
\* one with the seed "undefined" included, answers it.
C22_UnseededStaysDistinct ==
    front.kind = "http" /\ front.stage = "calling" /\ ~SeedArgumentGiven =>
        /\ pc = "return" => result.outcome # "hit"
        /\ pc \in {"select", "layers", "composite", "transform"} =>
               seed \in RandomSeeds

\* The file name a request maps to.
FileNameOf(call) == OutputPath(call[1], PathHashes[call], ArtifactExt(build))

SameFileName(c1, c2) == FileNameOf(c1) = FileNameOf(c2)

\* A render that went through with the arguments of the current call and
\* returned the path of the current result.
RenderedFromSame(call) ==
    /\ call.outcome = "built"
    /\ call.path = result.path
    /\ call.argSeed = argSeed
    /\ call.theme = theme
    /\ call.params = params

\* C23: a cache hit returns a file rendered from the seed, theme and params
\* of the current request, and two requests that differ in seed, theme or a
\* parameter never map to the same file name.
C23_CacheSoundness ==
    /\ pc = "return" /\ result.outcome = "hit" =>
           \E i \in 1..Len(done) : RenderedFromSame(done[i])
    /\ \A q1, q2 \in Queries :
           HandlerCall(q1) # HandlerCall(q2) =>
               ~SameFileName(HandlerCall(q1), HandlerCall(q2))

\* C24: with two requests for one fingerprint in flight, a request that
\* took the cache-hit branch was returned a file whose write had completed,
\* and what the handler read and sent for it is the whole image.
C24_HitSeesCompleteArtifact ==
    \A r \in RaceRequests :
        inflight[r].outcome = "hit" =>
            /\ inflight[r].pc = "read" => output[ServePng].complete
            /\ inflight[r].pc = "sent" => inflight[r].body.complete

====
